---- MODULE Spec2Model ----
(***************************************************************************)
(* Control loop of the LoRaWAN dispenser counter (source/main.cpp).        *)
(*                                                                         *)
(* The main loop is cut at every statement boundary where one of the three *)
(* interrupt handlers (counter_dec, counter_reset, low_battery) can run    *)
(* and change what the loop sees next.  A handler runs to completion       *)
(* between two loop steps.  Pin levels are part of the state: the loop     *)
(* polls dispense.read() and lowBat.read().                                *)
(***************************************************************************)
EXTENDS Integers, Naturals, Sequences, FiniteSets, TLC

(* ------------------------------ bounds --------------------------------- *)
\* last second of the modelled run (time(NULL) stops advancing there)
MaxTime == 1
\* dispense rising edges in one run
MaxEdges == 1
\* returns of the sleep call (loop passes after the first) in one run
MaxWakes == 1

(* --------------------------- program constants ------------------------- *)
\* static bool deep_sleep = false;
deep_sleep == FALSE
\* ceiling applied to the tx interval at cold start
TxIntervalCeiling == 60
\* value reset_dispenses_left() restores ("USER Reset Dispenses to 1000(Full)")
FullCount == 1000
\* floor of calculate_actual_sleep_time
MinSleepSeconds == 1
\* what the persistent store may hold at power-on: <<dispenses left, tx interval>>
StoredConfigs == {<<1, 1>>, <<997, 61>>}
\* seconds of processing that calculate_actual_sleep_time may find elapsed
ElapsedSeconds == {0, 1}

(* ----------------------- uint32_t as two 16-bit halves ------------------ *)
Half == 65536

U32(n) == <<(n \div Half) % Half, n % Half>>

\* a - b in uint32_t arithmetic (wraps modulo 2^32)
Sub32(a, b) ==
    LET lo     == a[2] - b[2]
        borrow == IF lo < 0 THEN 1 ELSE 0
        hi     == a[1] - b[1] - borrow
    IN  <<(hi + Half) % Half, (lo + Half) % Half>>

\* a + b in uint32_t arithmetic (wraps modulo 2^32)
Add32(a, b) ==
    LET lo    == a[2] + b[2]
        carry == lo \div Half
        hi    == a[1] + b[1] + carry
    IN  <<hi % Half, lo % Half>>

\* a uint32_t value is at most the small natural n
LeNat32(a, n) == a[1] = 0 /\ a[2] <= n

Max0(n) == IF n < 0 THEN 0 ELSE n

(* ------------------------------- state --------------------------------- *)
VARIABLES
    pc,                     \* position of main()
    now,                    \* time(NULL)
    standbyFlag,            \* dot->getStandbyFlag()
    counter_interrupt,      \* main.cpp:22
    reset_interrupt,        \* main.cpp:23
    low_battery_interrupt,  \* main.cpp:24
    sleep_until,            \* main.cpp:25
    dispenses_left,         \* ApplicationConfig: remaining count
    battery_low,            \* ApplicationConfig: stored battery alert state
    tx_interval_s,          \* ApplicationConfig: reporting period
    dispensePin,            \* level of XBEE_DIO2
    lowBatPin,              \* level of GPIO2 (1 healthy, 0 low)
    joined,                 \* dot->getNetworkJoinStatus()
    dutyCycleDisabled,      \* last value given to setDisableDutyCycle
    tx_data,                \* std::vector<uint8_t> tx_data
    dispenses_read,         \* local uint32_t dispenses_left (main.cpp:164)
    lowBatRead,             \* value of lowBat.read() at main.cpp:177
    sleepReq,               \* duration last passed to sleep_wake_rtc_or_interrupt
    sleepStart,             \* time(NULL) when that sleep began
    sleepEdges,             \* interrupts taken during the current sleep:
                            \* "dispense" (the wake pin) or "other"
    \* ---- observers (never read by the program) ----
    edgesUsed,              \* dispense rising edges so far
    wakesUsed,              \* returns of the sleep call so far
    countAtDrain,           \* dispenses_left when the loop last left its drain
    edgesSinceDrain,        \* dispense rising edges since then
    resetSinceDrain,        \* a reset edge occurred since then
    resetHandled,           \* this cycle cleared reset_interrupt
    dispOnlyWake,           \* this cycle was entered by a dispense-only wake
    resetAtWake,            \* reset_interrupt was set when this cycle began
    fastPath,               \* the last sleep was entered from the fast path
    stableRun,              \* 0x00 bytes pushed since the battery pin last fell
                            \* or was last read low
    joinCalls,              \* join_network calls in this cycle
    sendCalls,              \* send_data calls in this cycle
    alertSent,              \* a 0x01 was sent and no 0x00 has been sent since
    sendOk,                 \* result of the send_data call just made (TRUE
                            \* outside the statement that follows the call)
    dueAtWake,              \* the sleep call returned at or after sleep_until
                            \* and the loop has not yet chosen its branch
    provisionRuns,          \* runs of the cold-start provisioning sequence
    sessionRestores,        \* restoreNetworkSession calls
    sessionSaves            \* saveNetworkSession calls

progVars == <<pc, now, standbyFlag, counter_interrupt, reset_interrupt,
              low_battery_interrupt, sleep_until, dispenses_left, battery_low,
              tx_interval_s, dispensePin, lowBatPin, joined, dutyCycleDisabled,
              tx_data, dispenses_read, lowBatRead, sleepReq, sleepStart,
              sleepEdges>>

obsVars == <<edgesUsed, wakesUsed, countAtDrain, edgesSinceDrain, resetSinceDrain,
             resetHandled, dispOnlyWake, resetAtWake, fastPath, stableRun,
             joinCalls, sendCalls, alertSent, sendOk, dueAtWake,
             provisionRuns, sessionRestores, sessionSaves>>

vars == <<progVars, obsVars>>

\* groups used in UNCHANGED
latchVars  == <<counter_interrupt, reset_interrupt, low_battery_interrupt>>
configVars == <<dispenses_left, battery_low, tx_interval_s>>
pinVars    == <<dispensePin, lowBatPin>>
netVars    == <<joined, dutyCycleDisabled>>
txVars     == <<tx_data, dispenses_read, lowBatRead>>
sleepVars  == <<sleep_until, sleepReq, sleepStart, sleepEdges>>
drainObs   == <<countAtDrain, edgesSinceDrain, resetSinceDrain>>
cycleObs   == <<resetHandled, dispOnlyWake, resetAtWake, joinCalls, sendCalls>>
budgetObs  == <<edgesUsed, wakesUsed, alertSent>>
startObs   == <<provisionRuns, sessionRestores>>
callObs    == <<sendOk, dueAtWake, startObs, sessionSaves>>

(* ------------------------ ApplicationConfig ---------------------------- *)
\* config->decrease_dispenses_left(): decrement, clamped at 0
decrease_dispenses_left(n) == IF n > 0 THEN n - 1 ELSE 0

\* config->reset_dispenses_left(): back to the configured full value
reset_dispenses_left == FullCount

\* config->alert_low_battery(): the stored battery state becomes low
alert_low_battery == TRUE

\* config->alert_stable_battery(): the stored battery state is cleared
alert_stable_battery == FALSE

\* config->get_battery_status(): the stored battery state
get_battery_status(stored) == stored

\* calculate_actual_sleep_time(interval): interval minus the time already
\* spent, floored at a minimum positive value
calculate_actual_sleep_time(interval, elapsed) ==
    IF interval - elapsed < MinSleepSeconds THEN MinSleepSeconds
    ELSE interval - elapsed

(* ------------------------------ Init ----------------------------------- *)
Init ==
    /\ pc = "boot"
    /\ now = 0
    /\ standbyFlag \in BOOLEAN
    /\ counter_interrupt = FALSE
    /\ reset_interrupt = FALSE
    /\ low_battery_interrupt = FALSE
    /\ sleep_until = 0
    /\ \E cfg \in StoredConfigs :
          /\ dispenses_left = cfg[1]
          /\ tx_interval_s = cfg[2]
    /\ battery_low = FALSE
    /\ dispensePin = 0
    /\ lowBatPin = 1
    /\ joined = FALSE
    /\ dutyCycleDisabled = FALSE
    /\ tx_data = <<>>
    /\ dispenses_read = 0
    /\ lowBatRead = 1
    /\ sleepReq = U32(0)
    /\ sleepStart = 0
    /\ sleepEdges = {}
    /\ edgesUsed = 0
    /\ wakesUsed = 0
    /\ countAtDrain = dispenses_left
    /\ edgesSinceDrain = 0
    /\ resetSinceDrain = FALSE
    /\ resetHandled = FALSE
    /\ dispOnlyWake = FALSE
    /\ resetAtWake = FALSE
    /\ fastPath = FALSE
    /\ stableRun = 0
    /\ joinCalls = 0
    /\ sendCalls = 0
    /\ alertSent = FALSE
    /\ sendOk = TRUE
    /\ dueAtWake = FALSE
    /\ provisionRuns = 0
    /\ sessionRestores = 0
    /\ sessionSaves = 0

(* ----------------------- interrupt handlers ---------------------------- *)
\* void counter_dec()
counter_dec ==
    /\ counter_interrupt' = TRUE
    /\ dispenses_left' = decrease_dispenses_left(dispenses_left)

\* void counter_reset()
counter_reset ==
    /\ reset_interrupt' = TRUE
    /\ dispenses_left' = reset_dispenses_left

\* void low_battery()
low_battery ==
    /\ low_battery_interrupt' = TRUE
    /\ battery_low' = alert_low_battery

\* a handler that runs while the device sleeps is a wake source
NoteSleepEdge(src) ==
    sleepEdges' = IF pc = "sleeping" THEN sleepEdges \cup {src} ELSE sleepEdges

(* ------------------------- environment steps --------------------------- *)
\* dispense.rise(&counter_dec): rising edge of the dispense pin
DispenseRise ==
    /\ dispensePin = 0
    /\ edgesUsed < MaxEdges
    /\ edgesUsed' = edgesUsed + 1
    /\ dispensePin' = 1
    /\ counter_dec
    /\ NoteSleepEdge("dispense")
    /\ edgesSinceDrain' = edgesSinceDrain + 1
    /\ UNCHANGED <<pc, now, standbyFlag, reset_interrupt, low_battery_interrupt,
                   sleep_until, battery_low, tx_interval_s, lowBatPin, netVars,
                   txVars, sleepReq, sleepStart>>
    /\ UNCHANGED <<wakesUsed, alertSent, countAtDrain, resetSinceDrain,
                   cycleObs, fastPath, stableRun, callObs>>

\* the dispense pulse ends: no handler is attached to the falling edge
DispenseFall ==
    /\ dispensePin = 1
    /\ dispensePin' = 0
    /\ UNCHANGED <<pc, now, standbyFlag, latchVars, configVars, lowBatPin,
                   netVars, txVars, sleepVars>>
    /\ UNCHANGED obsVars

\* resetCounter.fall(&counter_reset): falling edge of the reset line
ResetFall ==
    /\ counter_reset
    /\ NoteSleepEdge("other")
    /\ resetSinceDrain' = TRUE
    /\ UNCHANGED <<pc, now, standbyFlag, counter_interrupt,
                   low_battery_interrupt, sleep_until, battery_low,
                   tx_interval_s, pinVars, netVars, txVars, sleepReq,
                   sleepStart>>
    /\ UNCHANGED <<budgetObs, countAtDrain, edgesSinceDrain, cycleObs, fastPath,
                   stableRun, callObs>>

\* lowBat.fall(&low_battery): falling edge of the battery comparator
LowBatFall ==
    /\ lowBatPin = 1
    /\ lowBatPin' = 0
    /\ low_battery
    /\ NoteSleepEdge("other")
    /\ stableRun' = 0
    /\ UNCHANGED <<pc, now, standbyFlag, counter_interrupt, reset_interrupt,
                   sleep_until, dispenses_left, tx_interval_s, dispensePin,
                   netVars, txVars, sleepReq, sleepStart>>
    /\ UNCHANGED <<budgetObs, drainObs, cycleObs, fastPath, callObs>>

\* the battery recovers: no handler is attached to the rising edge
LowBatRise ==
    /\ lowBatPin = 0
    /\ lowBatPin' = 1
    /\ UNCHANGED <<pc, now, standbyFlag, latchVars, configVars, dispensePin,
                   netVars, txVars, sleepVars>>
    /\ UNCHANGED obsVars

\* one second passes
Tick ==
    /\ now < MaxTime
    /\ now' = now + 1
    /\ UNCHANGED <<pc, standbyFlag, latchVars, configVars, pinVars, netVars,
                   txVars, sleepVars>>
    /\ UNCHANGED obsVars

(* ------------------------------ startup -------------------------------- *)
\* the startup as it would be if the warm wake applied the ceiling too
Startup_CapsOnWarmWake ==
    /\ pc = "boot"
    /\ tx_interval_s' = IF tx_interval_s > TxIntervalCeiling
                        THEN TxIntervalCeiling ELSE tx_interval_s
    /\ IF ~standbyFlag
       THEN /\ joined' = FALSE
            /\ dutyCycleDisabled' = TRUE
            /\ provisionRuns' = provisionRuns + 1
            /\ sessionRestores' = sessionRestores
       ELSE /\ joined' \in BOOLEAN
            /\ dutyCycleDisabled' = dutyCycleDisabled
            /\ provisionRuns' = provisionRuns
            /\ sessionRestores' = sessionRestores + 1
    /\ pc' = "top"
    /\ resetHandled' = FALSE
    /\ dispOnlyWake' = FALSE
    /\ resetAtWake' = FALSE
    /\ joinCalls' = 0
    /\ sendCalls' = 0
    /\ UNCHANGED <<now, standbyFlag, latchVars, dispenses_left, battery_low,
                   pinVars, txVars, sleepVars>>
    /\ UNCHANGED <<budgetObs, drainObs, fastPath, stableRun, sendOk, dueAtWake,
                   sessionSaves>>

\* the startup as it would be if it provisioned whatever the standby flag says
Startup_AlwaysProvisions ==
    /\ pc = "boot"
    /\ tx_interval_s' = IF tx_interval_s > TxIntervalCeiling
                        THEN TxIntervalCeiling ELSE tx_interval_s
    /\ joined' = FALSE
    /\ dutyCycleDisabled' = TRUE
    /\ provisionRuns' = provisionRuns + 1
    /\ sessionRestores' = sessionRestores
    /\ pc' = "top"
    /\ resetHandled' = FALSE
    /\ dispOnlyWake' = FALSE
    /\ resetAtWake' = FALSE
    /\ joinCalls' = 0
    /\ sendCalls' = 0
    /\ UNCHANGED <<now, standbyFlag, latchVars, dispenses_left, battery_low,
                   pinVars, txVars, sleepVars>>
    /\ UNCHANGED <<budgetObs, drainObs, fastPath, stableRun, sendOk, dueAtWake,
                   sessionSaves>>

\* main.cpp:68-128.  Cold boot (standby flag clear): cap the tx interval,
\* reset configuration and session, disable the duty cycle.  Warm wake:
\* restore the network session, which may or may not hold a join.
Startup ==
    /\ pc = "boot"
    /\ IF ~standbyFlag
       THEN /\ tx_interval_s' = IF tx_interval_s > TxIntervalCeiling
                                THEN TxIntervalCeiling ELSE tx_interval_s
            /\ joined' = FALSE
            /\ dutyCycleDisabled' = TRUE
            /\ provisionRuns' = provisionRuns + 1
            /\ sessionRestores' = sessionRestores
       ELSE /\ tx_interval_s' = tx_interval_s
            /\ joined' \in BOOLEAN
            /\ dutyCycleDisabled' = dutyCycleDisabled
            /\ provisionRuns' = provisionRuns
            /\ sessionRestores' = sessionRestores + 1
    /\ pc' = "top"
    /\ resetHandled' = FALSE
    /\ dispOnlyWake' = FALSE
    /\ resetAtWake' = FALSE
    /\ joinCalls' = 0
    /\ sendCalls' = 0
    /\ UNCHANGED <<now, standbyFlag, latchVars, dispenses_left, battery_low,
                   pinVars, txVars, sleepVars>>
    /\ UNCHANGED <<budgetObs, drainObs, fastPath, stableRun, sendOk, dueAtWake,
                   sessionSaves>>

(* ------------------------------ main loop ------------------------------ *)
\* main.cpp:133  counter_interrupt = dispense.read();
ReadDispense ==
    /\ pc = "top"
    /\ counter_interrupt' = (dispensePin = 1)
    /\ pc' = "check"
    /\ UNCHANGED <<now, standbyFlag, reset_interrupt, low_battery_interrupt,
                   configVars, pinVars, netVars, txVars, sleepVars>>
    /\ UNCHANGED obsVars

\* the fast path as it would be if it started a fresh reporting interval
FastPath_FreshInterval ==
    /\ pc = "check"
    /\ counter_interrupt
    /\ dispenses_left' = decrease_dispenses_left(dispenses_left)
    /\ counter_interrupt' = FALSE
    /\ sleep_until' = now + tx_interval_s
    /\ sleepReq' = U32(tx_interval_s)
    /\ sleepStart' = now
    /\ sleepEdges' = {}
    /\ pc' = "sleeping"
    /\ fastPath' = TRUE
    /\ countAtDrain' = dispenses_left'
    /\ edgesSinceDrain' = 0
    /\ resetSinceDrain' = FALSE
    /\ dueAtWake' = FALSE
    /\ UNCHANGED <<now, standbyFlag, reset_interrupt, low_battery_interrupt,
                   battery_low, tx_interval_s, pinVars, netVars, txVars>>
    /\ UNCHANGED <<budgetObs, cycleObs, stableRun, sendOk, startObs,
                   sessionSaves>>

\* the fast path as it would be if it refilled the count
FastPath_Refills ==
    /\ pc = "check"
    /\ counter_interrupt
    /\ dispenses_left' = reset_dispenses_left
    /\ counter_interrupt' = FALSE
    /\ sleepReq' = Sub32(U32(sleep_until), U32(now))
    /\ sleepStart' = now
    /\ sleepEdges' = {}
    /\ pc' = "sleeping"
    /\ fastPath' = TRUE
    /\ countAtDrain' = dispenses_left'
    /\ edgesSinceDrain' = 0
    /\ resetSinceDrain' = FALSE
    /\ dueAtWake' = FALSE
    /\ UNCHANGED <<now, standbyFlag, reset_interrupt, low_battery_interrupt,
                   sleep_until, battery_low, tx_interval_s, pinVars, netVars,
                   txVars>>
    /\ UNCHANGED <<budgetObs, cycleObs, stableRun, sendOk, startObs,
                   sessionSaves>>

\* main.cpp:138-146  if (counter_interrupt) { decrease; counter_interrupt = false;
\*                    sleep_time = sleep_until - time(NULL); sleep; continue; }
FastPath ==
    /\ pc = "check"
    /\ counter_interrupt
    /\ dispenses_left' = decrease_dispenses_left(dispenses_left)
    /\ counter_interrupt' = FALSE
    /\ sleepReq' = Sub32(U32(sleep_until), U32(now))
    /\ sleepStart' = now
    /\ sleepEdges' = {}
    /\ pc' = "sleeping"
    /\ fastPath' = TRUE
    /\ countAtDrain' = dispenses_left'
    /\ edgesSinceDrain' = 0
    /\ resetSinceDrain' = FALSE
    /\ dueAtWake' = FALSE
    /\ UNCHANGED <<now, standbyFlag, reset_interrupt, low_battery_interrupt,
                   sleep_until, battery_low, tx_interval_s, pinVars, netVars,
                   txVars>>
    /\ UNCHANGED <<budgetObs, cycleObs, stableRun, sendOk, startObs,
                   sessionSaves>>

\* main.cpp:138 not taken, then 149-154  if (reset_interrupt) { reset_interrupt = false; }
CheckReset ==
    /\ pc = "check"
    /\ ~counter_interrupt
    /\ reset_interrupt' = FALSE
    /\ resetHandled' = reset_interrupt
    /\ pc' = "join"
    /\ countAtDrain' = dispenses_left
    /\ edgesSinceDrain' = 0
    /\ resetSinceDrain' = FALSE
    /\ UNCHANGED <<now, standbyFlag, counter_interrupt, low_battery_interrupt,
                   configVars, pinVars, netVars, txVars, sleepVars>>
    /\ dueAtWake' = FALSE
    /\ UNCHANGED <<budgetObs, dispOnlyWake, resetAtWake, fastPath, stableRun,
                   joinCalls, sendCalls, sendOk, startObs, sessionSaves>>

\* the join as it would be if a failed join made main() return
JoinNetwork_ExitOnFailure ==
    /\ pc = "join"
    /\ IF ~joined
       THEN /\ joined' \in BOOLEAN
            /\ dutyCycleDisabled' = FALSE
            /\ joinCalls' = joinCalls + 1
            /\ pc' = IF joined' THEN "compose" ELSE "exit"
       ELSE /\ UNCHANGED <<joined, dutyCycleDisabled, joinCalls>>
            /\ pc' = "compose"
    /\ UNCHANGED <<now, standbyFlag, latchVars, configVars, pinVars, txVars,
                   sleepVars>>
    /\ UNCHANGED <<budgetObs, drainObs, resetHandled, dispOnlyWake, resetAtWake,
                   fastPath, stableRun, sendCalls, callObs>>

\* main.cpp:159-162  if (!joined) { join_network(); setDisableDutyCycle(false); }
JoinNetwork ==
    /\ pc = "join"
    /\ IF ~joined
       THEN /\ joined' \in BOOLEAN
            /\ dutyCycleDisabled' = FALSE
            /\ joinCalls' = joinCalls + 1
       ELSE UNCHANGED <<joined, dutyCycleDisabled, joinCalls>>
    /\ pc' = "compose"
    /\ UNCHANGED <<now, standbyFlag, latchVars, configVars, pinVars, txVars,
                   sleepVars>>
    /\ UNCHANGED <<budgetObs, drainObs, resetHandled, dispOnlyWake, resetAtWake,
                   fastPath, stableRun, sendCalls, callObs>>

\* (x >> 8) & 0xff and x & 0xff of a uint32_t
HighByte(x) == (x \div 256) % 256
LowByte(x) == x % 256

\* the payload head as it would be with the two count bytes in the other order
Compose_LittleEndian ==
    /\ pc = "compose"
    /\ dispenses_read' = dispenses_left
    /\ tx_data' = <<LowByte(dispenses_left), HighByte(dispenses_left)>>
    /\ pc' = "bat1"
    /\ UNCHANGED <<now, standbyFlag, latchVars, configVars, pinVars, netVars,
                   lowBatRead, sleepVars>>
    /\ UNCHANGED obsVars

\* main.cpp:164-167  read the count, push its two bytes
Compose ==
    /\ pc = "compose"
    /\ dispenses_read' = dispenses_left
    /\ tx_data' = <<HighByte(dispenses_left), LowByte(dispenses_left)>>
    /\ pc' = "bat1"
    /\ UNCHANGED <<now, standbyFlag, latchVars, configVars, pinVars, netVars,
                   lowBatRead, sleepVars>>
    /\ UNCHANGED obsVars

\* main.cpp:171  lowBat.read() == 1, the left operand of &&
ReadLowBat ==
    /\ pc = "bat1"
    /\ lowBatRead' = lowBatPin
    /\ pc' = "stable"
    /\ UNCHANGED <<now, standbyFlag, latchVars, configVars, pinVars, netVars,
                   tx_data, dispenses_read, sleepVars>>
    /\ UNCHANGED obsVars

\* the stable branch as it would be without the alert_stable_battery() call
CheckStable_KeepsState ==
    /\ pc = "stable"
    /\ IF lowBatRead = 1 /\ get_battery_status(battery_low)
       THEN /\ tx_data' = Append(tx_data, 0)
            /\ stableRun' = stableRun + 1
            /\ UNCHANGED battery_low
       ELSE UNCHANGED <<battery_low, tx_data, stableRun>>
    /\ pc' = "bat2"
    /\ UNCHANGED <<now, standbyFlag, latchVars, dispenses_left, tx_interval_s,
                   pinVars, netVars, dispenses_read, lowBatRead, sleepVars>>
    /\ UNCHANGED <<budgetObs, drainObs, cycleObs, fastPath, callObs>>

\* main.cpp:171-175  && get_battery_status() -> alert_stable_battery, push 0x00
CheckStable ==
    /\ pc = "stable"
    /\ IF lowBatRead = 1 /\ get_battery_status(battery_low)
       THEN /\ battery_low' = alert_stable_battery
            /\ tx_data' = Append(tx_data, 0)
            /\ stableRun' = stableRun + 1
       ELSE UNCHANGED <<battery_low, tx_data, stableRun>>
    /\ pc' = "bat2"
    /\ UNCHANGED <<now, standbyFlag, latchVars, dispenses_left, tx_interval_s,
                   pinVars, netVars, dispenses_read, lowBatRead, sleepVars>>
    /\ UNCHANGED <<budgetObs, drainObs, cycleObs, fastPath, callObs>>

\* the low branch as it would be if it alerted only on the transition to low
CheckLow_OnlyOnTransition ==
    /\ pc = "bat2"
    /\ lowBatRead' = lowBatPin
    /\ IF lowBatPin = 0 /\ ~get_battery_status(battery_low)
       THEN /\ battery_low' = alert_low_battery
            /\ tx_data' = Append(tx_data, 1)
       ELSE UNCHANGED <<battery_low, tx_data>>
    /\ stableRun' = IF lowBatPin = 0 THEN 0 ELSE stableRun
    /\ pc' = "send"
    /\ UNCHANGED <<now, standbyFlag, latchVars, dispenses_left, tx_interval_s,
                   pinVars, netVars, dispenses_read, sleepVars>>
    /\ UNCHANGED <<budgetObs, drainObs, cycleObs, fastPath, callObs>>

\* main.cpp:177-181  if (lowBat.read() == 0) { alert_low_battery; push 0x01 }
CheckLow ==
    /\ pc = "bat2"
    /\ lowBatRead' = lowBatPin
    /\ IF lowBatPin = 0
       THEN /\ battery_low' = alert_low_battery
            /\ tx_data' = Append(tx_data, 1)
       ELSE UNCHANGED <<battery_low, tx_data>>
    /\ stableRun' = IF lowBatPin = 0 THEN 0 ELSE stableRun
    /\ pc' = "send"
    /\ UNCHANGED <<now, standbyFlag, latchVars, dispenses_left, tx_interval_s,
                   pinVars, netVars, dispenses_read, sleepVars>>
    /\ UNCHANGED <<budgetObs, drainObs, cycleObs, fastPath, callObs>>

\* the send as it would be if a failed send_data were tried again
SendData_RetryOnFailure ==
    /\ pc = "send"
    /\ \E ok \in BOOLEAN :
          /\ sendOk' = ok
          /\ sendCalls' = sendCalls + 1
          /\ IF ok
             THEN /\ alertSent' = IF Len(tx_data) > 2
                                  THEN tx_data[Len(tx_data)] = 1
                                  ELSE alertSent
                  /\ tx_data' = <<>>
                  /\ dispenses_read' = 0
                  /\ lowBatRead' = 1
                  /\ pc' = "save"
             ELSE UNCHANGED <<alertSent, txVars, pc>>
    /\ UNCHANGED <<now, standbyFlag, latchVars, configVars, pinVars, netVars,
                   sleepVars>>
    /\ UNCHANGED <<edgesUsed, wakesUsed, drainObs, resetHandled, dispOnlyWake,
                   resetAtWake, fastPath, stableRun, joinCalls, dueAtWake,
                   startObs, sessionSaves>>

\* main.cpp:187-188  send_data(tx_data); the result is not looked at
SendData ==
    /\ pc = "send"
    /\ \E ok \in BOOLEAN :
          /\ sendOk' = ok
          /\ sendCalls' = sendCalls + 1
    /\ alertSent' = IF Len(tx_data) > 2
                    THEN tx_data[Len(tx_data)] = 1
                    ELSE alertSent
    /\ tx_data' = <<>>
    /\ dispenses_read' = 0
    /\ lowBatRead' = 1
    /\ pc' = "save"
    /\ UNCHANGED <<now, standbyFlag, latchVars, configVars, pinVars, netVars,
                   sleepVars>>
    /\ UNCHANGED <<edgesUsed, wakesUsed, drainObs, resetHandled, dispOnlyWake,
                   resetAtWake, fastPath, stableRun, joinCalls, dueAtWake,
                   startObs, sessionSaves>>

\* the session save as it would be without the deep_sleep test
SaveSession_Always ==
    /\ pc = "save"
    /\ sessionSaves' = sessionSaves + 1
    /\ sendOk' = TRUE
    /\ pc' = "sleepcalc"
    /\ UNCHANGED <<now, standbyFlag, latchVars, configVars, pinVars, netVars,
                   txVars, sleepVars>>
    /\ UNCHANGED <<budgetObs, drainObs, cycleObs, fastPath, stableRun,
                   dueAtWake, startObs>>

\* main.cpp:192-195  if (deep_sleep) { dot->saveNetworkSession(); }  The result
\* of the save is not looked at.
SaveSession ==
    /\ pc = "save"
    /\ sessionSaves' = IF deep_sleep THEN sessionSaves + 1 ELSE sessionSaves
    /\ sendOk' = TRUE
    /\ pc' = "sleepcalc"
    /\ UNCHANGED <<now, standbyFlag, latchVars, configVars, pinVars, netVars,
                   txVars, sleepVars>>
    /\ UNCHANGED <<budgetObs, drainObs, cycleObs, fastPath, stableRun,
                   dueAtWake, startObs>>

\* main.cpp:197-203  compute the sleep time and the deadline, sleep
EnterSleep ==
    /\ pc = "sleepcalc"
    /\ \E elapsed \in ElapsedSeconds :
          LET sleep_time == calculate_actual_sleep_time(tx_interval_s, elapsed)
          IN  /\ sleep_until' = now + sleep_time
              /\ sleepReq' = U32(sleep_time)
    /\ sleepStart' = now
    /\ sleepEdges' = {}
    /\ pc' = "sleeping"
    /\ fastPath' = FALSE
    /\ UNCHANGED <<now, standbyFlag, latchVars, configVars, pinVars, netVars,
                   txVars>>
    /\ UNCHANGED <<budgetObs, drainObs, cycleObs, stableRun, callObs>>

\* the RTC alarm of the last sleep request has gone off
TimerExpired == LeNat32(sleepReq, now - sleepStart)

\* sleep_wake_rtc_or_interrupt returns: RTC alarm or an interrupt.  With
\* deep_sleep the RAM is lost and main() starts again with the standby flag set.
Wake ==
    /\ pc = "sleeping"
    /\ TimerExpired \/ sleepEdges # {}
    /\ wakesUsed < MaxWakes
    /\ wakesUsed' = wakesUsed + 1
    /\ IF deep_sleep
       THEN /\ pc' = "boot"
            /\ standbyFlag' = TRUE
            /\ counter_interrupt' = FALSE
            /\ reset_interrupt' = FALSE
            /\ low_battery_interrupt' = FALSE
            /\ sleep_until' = 0
       ELSE /\ pc' = "top"
            /\ UNCHANGED <<standbyFlag, latchVars, sleep_until>>
    /\ sleepEdges' = {}
    /\ resetHandled' = FALSE
    /\ dispOnlyWake' = /\ sleepEdges = {"dispense"}
                       /\ ~TimerExpired
                       /\ ~reset_interrupt
                       /\ now < sleep_until
    /\ resetAtWake' = reset_interrupt
    /\ joinCalls' = 0
    /\ sendCalls' = 0
    /\ sleepReq' = U32(0)
    /\ sleepStart' = 0
    /\ fastPath' = FALSE
    /\ dueAtWake' = (now >= sleep_until)
    /\ UNCHANGED <<now, configVars, pinVars, netVars, txVars>>
    /\ UNCHANGED <<edgesUsed, alertSent, drainObs, stableRun, sendOk, startObs,
                   sessionSaves>>

(* --------------------------- specification ----------------------------- *)
Next ==
    \/ DispenseRise
    \/ DispenseFall
    \/ ResetFall
    \/ LowBatFall
    \/ LowBatRise
    \/ Tick
    \/ Startup
    \/ ReadDispense
    \/ FastPath
    \/ CheckReset
    \/ JoinNetwork
    \/ Compose
    \/ ReadLowBat
    \/ CheckStable
    \/ CheckLow
    \/ SendData
    \/ SaveSession
    \/ EnterSleep
    \/ Wake

Spec == Init /\ [][Next]_vars

TypeOK ==
    /\ pc \in {"boot", "top", "check", "join",
               "compose", "bat1", "stable", "bat2", "send", "save", "sleepcalc",
               "sleeping"}
    /\ now \in 0..MaxTime
    /\ dispenses_left \in 0..FullCount
    /\ dispensePin \in {0, 1}
    /\ lowBatPin \in {0, 1}
    /\ sleepReq \in (0..(Half - 1)) \X (0..(Half - 1))

(* ----------------------------- properties ------------------------------- *)
\* last byte of the payload under construction
LastByte(d) == d[Len(d)]

\* C1: when the loop has gone through its drain (main.cpp:138, either branch),
\* and no reset came in between, dispenses_left is max(0, c - n), where c is the
\* count at the previous drain and n the dispense rising edges since then.
C1_EveryEdgeCountedOnce ==
    [][(pc = "check" /\ pc' # "check" /\ ~resetSinceDrain)
         => dispenses_left' = Max0(countAtDrain - edgesSinceDrain)]_vars

\* C2: the loop cycle that clears reset_interrupt ends (enters sleep) with
\* dispenses_left at the configured full value, whatever decrements were made
\* between the reset edge and the loop's handling of it (no dispense edge came
\* after the handling).
C2_ResetRestoresFull ==
    [][(pc = "sleepcalc" /\ pc' = "sleeping" /\ resetHandled
          /\ edgesSinceDrain = 0)
         => dispenses_left' = FullCount]_vars

\* C3: a cycle entered by a wake caused by a dispense edge alone, with no reset
\* pending or handled and the deadline not reached, calls neither join_network
\* nor send_data.
C3_DispenseWakeNoNetwork ==
    (dispOnlyWake /\ ~reset_interrupt /\ ~resetHandled /\ now < sleep_until)
        => (joinCalls = 0 /\ sendCalls = 0)

\* C4: the fast path leaves sleep_until as it was and asks for a sleep of
\* sleep_until - time(NULL) (uint32_t), which ends exactly at the deadline; before
\* the deadline that is the remainder of the interval.
C4_FastPathKeepsDeadline ==
    /\ [](pc = "sleeping" /\ fastPath
            => /\ Add32(sleepReq, U32(sleepStart)) = U32(sleep_until)
               /\ sleepStart <= sleep_until
                    => sleepReq = U32(sleep_until - sleepStart))
    /\ [][(pc = "check" /\ pc' = "sleeping") => sleep_until' = sleep_until]_vars

C4_Witness ==
    /\ pc = "sleeping"
    /\ fastPath
    /\ wakesUsed >= 1
    /\ 0 < sleepStart
    /\ sleepStart < sleep_until
    /\ sleepReq = U32(sleep_until - sleepStart)

\* C5: every duration passed to sleep_wake_rtc_or_interrupt is positive and at
\* most the tx interval.
C5_SleepDurationPositiveBounded ==
    pc = "sleeping" => (sleepReq # U32(0) /\ LeNat32(sleepReq, tx_interval_s))

\* C6: when the read of the battery pin at main.cpp:177 returns low, the payload
\* handed to send_data ends in 0x01 and the stored battery state is low.
C6_LowReadAlwaysAlerts ==
    (pc = "send" /\ lowBatRead = 0)
        => (Len(tx_data) >= 3 /\ LastByte(tx_data) = 1 /\ battery_low)

\* a low alert goes out although an earlier report already carried one
C6_Witness ==
    /\ pc = "send"
    /\ lowBatRead = 0
    /\ alertSent
    /\ wakesUsed >= 1
    /\ LastByte(tx_data) = 1

\* C7: as long as the battery pin neither falls nor is read low, the stable
\* byte 0x00 is pushed at most once, the push leaves the stored state cleared,
\* and a cycle whose second read is healthy carries no status byte but that 0x00.
C7_StableSentOncePerEpisode ==
    /\ stableRun <= 1
    /\ stableRun = 1 => ~battery_low
    /\ (pc = "send" /\ lowBatRead = 1)
          => \/ Len(tx_data) = 2
             \/ Len(tx_data) = 3 /\ tx_data[3] = 0

\* a later stable cycle: the 0x00 went out in an earlier cycle, this payload has
\* no status byte
C7_Witness ==
    /\ pc = "send"
    /\ stableRun = 1
    /\ wakesUsed >= 1
    /\ lowBatRead = 1
    /\ Len(tx_data) = 2

\* C8: every payload handed to send_data has 2 or 3 bytes, the third 0x00 or 0x01.
C8_PayloadTwoOrThreeBytes ==
    pc = "send" => /\ Len(tx_data) \in {2, 3}
                   /\ Len(tx_data) = 3 => tx_data[3] \in {0, 1}

\* the two byte expressions of main.cpp:166-167 decode, big-endian, to the count
\* they were taken from, for every count of 16 bits
EncodingRoundTrip ==
    \A c \in 0..65535 :
        /\ HighByte(c) \in 0..255
        /\ LowByte(c) \in 0..255
        /\ HighByte(c) * 256 + LowByte(c) = c

\* C9: the first two bytes of the payload are bytes, and read as a big-endian
\* number they give back the count the loop read in this cycle; the encoding
\* is exact for all counts in 0..65535.
C9_CountBigEndian ==
    /\ EncodingRoundTrip
    /\ pc \in {"bat1", "stable", "bat2", "send"}
          => /\ Len(tx_data) >= 2
             /\ tx_data[1] \in 0..255
             /\ tx_data[2] \in 0..255
             /\ tx_data[1] * 256 + tx_data[2] = dispenses_read
             /\ dispenses_read \in 0..65535

\* 997 goes out as 0x03, 0xE5
C9_Witness ==
    /\ pc = "send"
    /\ dispenses_read = 997
    /\ tx_data[1] = 3
    /\ tx_data[2] = 229

\* C10: a cycle that began with reset_interrupt set does not end in the
\* dispense fast path.
C10_ResetBeforeFastPath ==
    resetAtWake => ~(pc = "sleeping" /\ fastPath)

\* C11: a transmit cycle calls send_data exactly once.  Whether the call
\* succeeds or fails, the loop goes on to the session save, the deadline and
\* the sleep without calling it again, and none of these steps changes
\* dispenses_left.
C11_SendOncePerCycle ==
    /\ [](pc = "send" => sendCalls = 0)
    /\ [](pc \in {"save", "sleepcalc"} => sendCalls = 1)
    /\ [](pc = "sleeping" /\ ~fastPath => sendCalls = 1)
    /\ [][(pc = "send" /\ pc' # pc)
            => /\ pc' = "save"
               /\ sendCalls' = sendCalls + 1
               /\ dispenses_left' = dispenses_left]_vars
    /\ [][(pc = "save" /\ pc' # pc)
            => /\ pc' = "sleepcalc"
               /\ sendCalls' = sendCalls
               /\ dispenses_left' = dispenses_left]_vars
    /\ [][(pc = "sleepcalc" /\ pc' # pc)
            => /\ pc' = "sleeping"
               /\ sendCalls' = sendCalls
               /\ dispenses_left' = dispenses_left]_vars

\* a cycle after a wake whose one send_data call has failed
C11_Witness ==
    /\ pc = "save"
    /\ ~sendOk
    /\ sendCalls = 1
    /\ wakesUsed >= 1

\* one statement of the while (true) body, main.cpp:132-204
LoopStep ==
    \/ ReadDispense
    \/ FastPath
    \/ CheckReset
    \/ JoinNetwork
    \/ Compose
    \/ ReadLowBat
    \/ CheckStable
    \/ CheckLow
    \/ SendData
    \/ SaveSession
    \/ EnterSleep

\* the moves of main(): every path from the top of the loop ends in the sleep
\* call, and the sleep call returns to the top (or restarts main from standby)
LoopEdges ==
    {<<"boot", "top">>, <<"top", "check">>, <<"check", "sleeping">>,
     <<"check", "join">>, <<"join", "compose">>, <<"compose", "bat1">>,
     <<"bat1", "stable">>, <<"stable", "bat2">>, <<"bat2", "send">>,
     <<"send", "save">>, <<"save", "sleepcalc">>, <<"sleepcalc", "sleeping">>,
     <<"sleeping", IF deep_sleep THEN "boot" ELSE "top">>}

\* C12: the control loop never halts.  Whatever the join and the send return,
\* main() is never at a position outside startup and the loop, the next
\* statement can always run until the sleep call is reached, and every move
\* follows the loop towards the sleep call.
C12_LoopNeverHalts ==
    /\ [](pc \in {e[1] : e \in LoopEdges})
    /\ [](pc = "boot" => ENABLED Startup)
    /\ [](pc \notin {"boot", "sleeping"} => ENABLED LoopStep)
    /\ [][pc' # pc => <<pc, pc'>> \in LoopEdges]_vars

\* a cycle after a wake reached the sleep call although its join failed
C12_Witness ==
    /\ pc = "sleeping"
    /\ ~fastPath
    /\ wakesUsed >= 1
    /\ joinCalls = 1
    /\ ~joined
    /\ sendCalls = 1

\* C13: a cycle that begins with the sleep call returning at or after the
\* deadline (time(NULL) >= sleep_until) goes on to compose and send a report,
\* whatever the latches and the dispense pin hold: it does not go back to
\* sleep through the fast path.  Only deadlines set by an earlier report
\* (sleep_until > 0) are looked at.
C13_DeadlineWakeSendsReport ==
    [][(pc = "check" /\ dueAtWake /\ sleep_until > 0 /\ pc' # pc)
         => pc' = "join"]_vars

\* C14: a transmit cycle that finds the network not joined makes one join
\* attempt before the payload is sent, and inside the loop the duty-cycle
\* setting changes only in a join step that ends joined: a failed join
\* leaves the setting as it was before the attempt.
C14_DutyCycleOnlyAfterJoin ==
    /\ []((pc \in {"compose", "bat1", "stable", "bat2", "send"} /\ ~joined)
            => joinCalls = 1)
    /\ [][(pc # "boot" /\ dutyCycleDisabled' # dutyCycleDisabled)
            => (pc = "join" /\ ~joined /\ joined')]_vars

\* C15: a latch is cleared by the loop once it has been acted upon, and only
\* the loop clears it.  When a transmit cycle has reached its sleep call:
\* counter_interrupt is clear unless a dispense edge came after the drain,
\* reset_interrupt is clear unless a reset edge came after the drain, and
\* low_battery_interrupt is clear once the end of the low-battery episode has
\* been reported (a 0x00 pushed, no falling edge since).  A step that is not
\* a step of the loop never clears a latch.
C15_LatchesClearedByLoop ==
    /\ []((pc = "sleeping" /\ ~fastPath)
            => /\ edgesSinceDrain = 0 => ~counter_interrupt
               /\ ~resetSinceDrain => ~reset_interrupt
               /\ stableRun = 1 => ~low_battery_interrupt)
    /\ [][pc' = pc => /\ counter_interrupt => counter_interrupt'
                      /\ reset_interrupt => reset_interrupt'
                      /\ low_battery_interrupt => low_battery_interrupt']_vars

\* C16: dispenses_left never goes below 0, and it increases only in a
\* counter_reset step, which sets it to the full value.  A step of main()
\* (startup, fast path, join, transmit, session save, sleep, wake) and the
\* dispense handler leave it equal or lower.
C16_CountOnlyResetIncreases ==
    /\ [](dispenses_left >= 0)
    /\ [][dispenses_left' > dispenses_left
            => /\ pc' = pc
               /\ dispensePin' = dispensePin
               /\ reset_interrupt'
               /\ resetSinceDrain'
               /\ dispenses_left' = reset_dispenses_left]_vars
    /\ [][(pc' # pc \/ dispensePin' # dispensePin)
            => dispenses_left' <= dispenses_left]_vars

\* the count was 1, the dispense handler took it to 0 and the fast path's own
\* decrement has left it at 0
C16_Witness ==
    /\ pc = "sleeping"
    /\ fastPath
    /\ edgesUsed = 1
    /\ ~reset_interrupt
    /\ dispenses_left = 0
    /\ tx_interval_s = 1

\* C17: once main() has passed startup, a cold boot (standby flag clear) has
\* run the provisioning sequence exactly once and has not restored the
\* session, and until the first join the device is not joined and holds the
\* provisioned settings; a warm wake (standby flag set) has run no
\* provisioning and has restored the session exactly once.  Before startup
\* neither has happened.
C17_ProvisionOrRestore ==
    /\ pc = "boot" => (provisionRuns = 0 /\ sessionRestores = 0)
    /\ (pc # "boot" /\ ~standbyFlag)
         => /\ provisionRuns = 1
            /\ sessionRestores = 0
            /\ (wakesUsed = 0 /\ pc \in {"top", "check", "join"})
                 => /\ ~joined
                    /\ dutyCycleDisabled
                    /\ tx_interval_s <= TxIntervalCeiling
    /\ (pc # "boot" /\ standbyFlag)
         => /\ provisionRuns = 0
            /\ sessionRestores = 1

\* the first cycle after a warm wake composes its report without a join:
\* the restored session holds one
C17_Witness ==
    /\ standbyFlag
    /\ pc = "compose"
    /\ wakesUsed = 0
    /\ sessionRestores = 1
    /\ provisionRuns = 0
    /\ joined
    /\ joinCalls = 0

\* C18: the tail of a transmit cycle runs in this order: send_data; then
\* saveNetworkSession, called if and only if deep_sleep is set; then
\* sleep_until becomes the current time plus the computed sleep time; then the
\* sleep call with that time, which returns on the timer or on an interrupt.
\* The fast path neither saves the session nor assigns sleep_until.
C18_TransmitTailOrder ==
    /\ [][(pc = "send" /\ pc' # pc)
            => /\ pc' = "save"
               /\ sendCalls' = 1
               /\ sessionSaves' = sessionSaves
               /\ sleep_until' = sleep_until]_vars
    /\ [][(pc = "save" /\ pc' # pc)
            => /\ pc' = "sleepcalc"
               /\ sendCalls' = 1
               /\ sessionSaves' = sessionSaves + (IF deep_sleep THEN 1 ELSE 0)
               /\ sleep_until' = sleep_until]_vars
    /\ [][(pc = "sleepcalc" /\ pc' # pc)
            => /\ pc' = "sleeping"
               /\ sessionSaves' = sessionSaves
               /\ sleepStart' = now
               /\ \E elapsed \in ElapsedSeconds :
                     LET t == calculate_actual_sleep_time(tx_interval_s, elapsed)
                     IN  sleep_until' = now + t /\ sleepReq' = U32(t)]_vars
    /\ [][(pc = "sleeping" /\ pc' # pc) => (TimerExpired \/ sleepEdges # {})]_vars
    /\ [][(pc = "check" /\ pc' = "sleeping")
            => /\ sessionSaves' = sessionSaves
               /\ sleep_until' = sleep_until]_vars

\* a transmit cycle after a wake has reached its sleep call at time 1 with a
\* fresh deadline and, deep_sleep being off, no session save
C18_Witness ==
    /\ pc = "sleeping"
    /\ ~fastPath
    /\ wakesUsed >= 1
    /\ sendCalls = 1
    /\ sessionSaves = 0
    /\ sleepStart = 1
    /\ sleep_until = 2
    /\ sleepReq = U32(1)

\* C19: after a cold boot the tx interval is at most the ceiling.  The only
\* step that changes the interval is the cold start finding a stored value
\* above the ceiling, which it replaces by the ceiling: a stored value at or
\* below the ceiling, the warm wake and the loop leave the interval alone.  The
\* sleep time of a transmit cycle is computed from the interval stored then.
C19_CeilingOnlyAtColdStart ==
    /\ []((pc # "boot" /\ ~standbyFlag) => tx_interval_s <= TxIntervalCeiling)
    /\ [][tx_interval_s' # tx_interval_s
            => /\ pc = "boot"
               /\ ~standbyFlag
               /\ tx_interval_s > TxIntervalCeiling
               /\ tx_interval_s' = TxIntervalCeiling]_vars
    /\ [][(pc = "sleepcalc" /\ pc' # pc)
            => \E elapsed \in ElapsedSeconds :
                  sleepReq' =
                     U32(calculate_actual_sleep_time(tx_interval_s, elapsed))]_vars

\* a cold boot found 61 s stored: the transmit cycle sleeps the full 60 s
C19_Witness ==
    /\ ~standbyFlag
    /\ pc = "sleeping"
    /\ ~fastPath
    /\ tx_interval_s = TxIntervalCeiling
    /\ sleepReq = U32(TxIntervalCeiling)
    /\ sleep_until = sleepStart + TxIntervalCeiling

\* C20: a report that carries the stable byte 0x00 comes after a report that
\* carried the alert byte 0x01, with no other 0x00 report in between (or
\* since boot): the low-battery episode it closes has been reported.
C20_StableOnlyAfterReportedLow ==
    (pc = "send" /\ Len(tx_data) = 3 /\ LastByte(tx_data) = 0) => alertSent

====
